---- MODULE Spec2Model ----
(***************************************************************************)
(* A model of src/app.py: parse_pdf and the functions it calls             *)
(* (extract_text_and_headings, extract_tables, build_table_from_words,     *)
(* sanitize_table, extract_charts).                                        *)
(*                                                                         *)
(* Python values are modelled as follows.                                  *)
(*   - a str is a sequence of one-character strings;                       *)
(*   - a reference that may be None is a sequence of length at most one:   *)
(*     None is <<>> and a value v is <<v>> (Some(v));                      *)
(*   - a float font size is an integer number of tenths of a point, and a  *)
(*     float word top is an integer number of halves of a unit;            *)
(*   - a dict is a record; a missing key is a missing field.               *)
(* The PDF libraries (fitz, camelot, pdfplumber) are the environment: what *)
(* they return for a page is part of the page record of the document.      *)
(***************************************************************************)
EXTENDS Integers, Sequences, FiniteSets, TLC

VARIABLES
    doc,              \* the pages of the opened document that were read so far
    pc,               \* the position in parse_pdf and its callees
    page_num,         \* parse_pdf: page_num of the loop (0 before the first page)
    pages_output,     \* parse_pdf: pages_output
    page_items,       \* parse_pdf: page_items of the current page
    last_section,     \* the section label threaded through the calls
    last_subsection,  \* the sub-section label threaded through the calls
    enriched,         \* extract_text_and_headings: enriched
    idx,              \* extract_text_and_headings: position of the second loop
    paragraphs,       \* extract_text_and_headings: paragraphs
    results,          \* extract_tables: results
    table,            \* extract_tables: table, the value build_table_from_words returned
    charts,           \* extract_charts: charts, the value it returned
    raised,           \* the exception that left parse_pdf, None when none did
    calls,            \* history: the extractors extract_tables invoked for this page
    failed,           \* history: the strategies of extract_tables that raised
    origin,           \* history: per item of results, the strategy and source index
    section_seen,     \* history: a section heading block was classified
    span_labels       \* history: labels of the paragraphs emitted since the last heading

vars == <<doc, pc, page_num, pages_output, page_items, last_section,
          last_subsection, enriched, idx, paragraphs, results, table, charts,
          raised, calls, failed, origin, section_seen, span_labels>>

(***************************************************************************)
(* Bounds of the model.                                                    *)
(***************************************************************************)
MaxPages == 2
MaxBlocks == 3
MaxTextBlocks == 3
MaxTables == 2
MaxWords == 3
MaxImgs == 3

(***************************************************************************)
(* Python values.                                                          *)
(***************************************************************************)
None == <<>>
Some(v) == <<v>>

\* bool(x) of an optional str: None and "" are falsy.
Truthy(opt) == opt # None /\ opt[1] # <<>>

IsSpace(c) == c \in {" ", "\t", "\n"}

RECURSIVE LStrip(_)
LStrip(s) ==
    IF s = <<>> THEN <<>>
    ELSE IF IsSpace(Head(s)) THEN LStrip(Tail(s)) ELSE s

RECURSIVE RStrip(_)
RStrip(s) ==
    IF s = <<>> THEN <<>>
    ELSE IF IsSpace(s[Len(s)]) THEN RStrip(SubSeq(s, 1, Len(s) - 1)) ELSE s

\* str.strip()
Strip(s) == RStrip(LStrip(s))

\* " ".join(parts)
RECURSIVE Join(_)
Join(parts) ==
    IF parts = <<>> THEN <<>>
    ELSE IF Len(parts) = 1 THEN parts[1]
    ELSE parts[1] \o <<" ">> \o Join(Tail(parts))

\* str.split(): the maximal runs of non-whitespace characters, in order.
RECURSIVE SplitFrom(_, _)
SplitFrom(s, cur) ==
    IF s = <<>> THEN (IF cur = <<>> THEN <<>> ELSE <<cur>>)
    ELSE IF IsSpace(Head(s))
         THEN (IF cur = <<>> THEN <<>> ELSE <<cur>>) \o SplitFrom(Tail(s), <<>>)
         ELSE SplitFrom(Tail(s), Append(cur, Head(s)))

Split(s) == SplitFrom(s, <<>>)

DigitChar(d) ==
    CASE d = 0 -> "0" [] d = 1 -> "1" [] d = 2 -> "2" [] d = 3 -> "3"
      [] d = 4 -> "4" [] d = 5 -> "5" [] d = 6 -> "6" [] d = 7 -> "7"
      [] d = 8 -> "8" [] d = 9 -> "9"

RECURSIVE NatToStr(_)
NatToStr(n) ==
    IF n < 10 THEN <<DigitChar(n)>>
    ELSE Append(NatToStr(n \div 10), DigitChar(n % 10))

\* str(n) of an int
IntToStr(n) == IF n < 0 THEN <<"-">> \o NatToStr(0 - n) ELSE NatToStr(n)

\* The exceptions the libraries and the built-ins raise are subclasses of
\* Exception; "except Exception" catches exactly those.
ExceptionSubclasses == {"TypeError", "KeyError", "IOError", "ValueError"}

CatchesNothingButKeyError(exc) == exc = "KeyError"

Catches(exc) == exc \in ExceptionSubclasses

(***************************************************************************)
(* extract_text_and_headings                                               *)
(***************************************************************************)
\* Font sizes are in tenths of a point.
SECTION_FONT == 160
SECTION_BOLD_FONT == 140
SUBSECTION_FONT == 130
SUBSECTION_BOLD_FONT == 115
SHORT_WORDS == 4
BOLD_FLAG == 2

Unknown == <<"U", "n", "k", "n", "o", "w", "n">>

\* The spans of b.get("lines", []), line after line.
RECURSIVE FlattenLines(_)
FlattenLines(lines) ==
    IF lines = <<>> THEN <<>>
    ELSE (IF "spans" \in DOMAIN Head(lines) THEN Head(lines).spans ELSE <<>>)
         \o FlattenLines(Tail(lines))

BlockSpans(b) == IF "lines" \in DOMAIN b THEN FlattenLines(b.lines) ELSE <<>>

\* span["text"], span["size"], span["flags"]: a missing key raises KeyError.
SpanRaises(span) == ~({"text", "size", "flags"} \subseteq DOMAIN span)

BlocksRaise(blocks) ==
    \E i \in 1..Len(blocks) :
        \E j \in 1..Len(BlockSpans(blocks[i])) : SpanRaises(BlockSpans(blocks[i])[j])

RECURSIVE SpanTexts(_)
SpanTexts(spans) ==
    IF spans = <<>> THEN <<>> ELSE <<Head(spans).text>> \o SpanTexts(Tail(spans))

RECURSIVE MaxSize(_)
MaxSize(spans) ==
    IF Len(spans) = 1 THEN spans[1].size
    ELSE LET m == MaxSize(Tail(spans))
         IN  IF Head(spans).size >= m THEN Head(spans).size ELSE m

\* (f & 2) != 0
HasBoldBit(f) == (f \div BOLD_FLAG) % 2 = 1

BlockText(b) == Strip(Join(SpanTexts(BlockSpans(b))))

EnrichedBlock(b) ==
    LET spans == BlockSpans(b)
    IN  [text |-> BlockText(b),
         bbox |-> IF "bbox" \in DOMAIN b THEN b.bbox ELSE None,
         largest_font |-> IF spans # <<>> THEN MaxSize(spans) ELSE 0,
         is_bold |-> \E j \in 1..Len(spans) : HasBoldBit(spans[j].flags)]

\* The first loop: a block without text is dropped, the others are enriched.
RECURSIVE Enrich(_)
Enrich(blocks) ==
    IF blocks = <<>> THEN <<>>
    ELSE (IF BlockText(Head(blocks)) = <<>> THEN <<>>
          ELSE <<EnrichedBlock(Head(blocks))>>) \o Enrich(Tail(blocks))

\* x["bbox"][1] on a bbox that is None raises TypeError.
SortRaises(seq) == \E i \in 1..Len(seq) : seq[i].bbox = None

SortKey(e) == <<e.bbox[1][2], e.bbox[1][1]>>

KeyLess(a, b) == a[1] < b[1] \/ (a[1] = b[1] /\ a[2] < b[2])

\* list.sort is stable: x goes after every element whose key is not greater.
RECURSIVE InsertByKey(_, _)
InsertByKey(x, sorted) ==
    IF sorted = <<>> THEN <<x>>
    ELSE IF KeyLess(SortKey(x), SortKey(Head(sorted)))
         THEN <<x>> \o sorted
         ELSE <<Head(sorted)>> \o InsertByKey(x, Tail(sorted))

\* The blocks left in the order the page gave them.
SourceOrder(seq) == seq

RECURSIVE SortByPosition(_)
SortByPosition(seq) ==
    IF seq = <<>> THEN <<>>
    ELSE InsertByKey(seq[Len(seq)], SortByPosition(SubSeq(seq, 1, Len(seq) - 1)))

SectionOnlyBySize(lf, bold) == lf > SECTION_FONT

IsSectionHeading(lf, bold) ==
    lf >= SECTION_FONT \/ (lf >= SECTION_BOLD_FONT /\ bold)

\* The sub-section rule without its short bold text case.
SubsectionBySizeOnly(lf, bold, txt) ==
    \/ (SUBSECTION_FONT <= lf /\ lf < SECTION_FONT)
    \/ (SUBSECTION_BOLD_FONT <= lf /\ lf < SUBSECTION_FONT /\ bold)

IsSubsectionHeading(lf, bold, txt) ==
    \/ (SUBSECTION_FONT <= lf /\ lf < SECTION_FONT)
    \/ (SUBSECTION_BOLD_FONT <= lf /\ lf < SUBSECTION_FONT /\ bold)
    \/ (Len(Split(txt)) <= SHORT_WORDS /\ bold)

SectionAsIs(section) == section

\* last_section if last_section else "Unknown"
SectionOrUnknown(section) == IF Truthy(section) THEN section ELSE Some(Unknown)

\* last_section, last_subsection = txt, None
SectionKeepsSubsection(txt, subsection) == <<Some(txt), subsection>>

SectionHeadingState(txt, subsection) == <<Some(txt), None>>

ParagraphItem(section, subsection, txt) ==
    [type |-> "paragraph", section |-> SectionOrUnknown(section),
     sub_section |-> subsection, text |-> txt]

(***************************************************************************)
(* sanitize_table.  A cell is a Python object: None, a str or an int.      *)
(***************************************************************************)
NoneCell == [kind |-> "none"]
StrCell(s) == [kind |-> "str", val |-> s]
IntCell(n) == [kind |-> "int", val |-> n]

\* str(cell)
PyStr(cell) == IF cell.kind = "str" THEN cell.val ELSE IntToStr(cell.val)

SanitizeCellNoStrip(cell) == IF cell.kind = "none" THEN <<>> ELSE PyStr(cell)

\* "" if cell is None else str(cell).strip()
SanitizeCell(cell) == IF cell.kind = "none" THEN <<>> ELSE Strip(PyStr(cell))

sanitize_table(table_rows) ==
    [r \in 1..Len(table_rows) |->
        [c \in 1..Len(table_rows[r]) |-> SanitizeCell(table_rows[r][c])]]

(***************************************************************************)
(* build_table_from_words                                                  *)
(***************************************************************************)
Y_TOLERANCE == 3
COL_GAP == 20
\* A top is a number of halves: top = w.top / TOP_UNITS.
TOP_UNITS == 2

\* w.get("text", "").strip()
WordText(w) == Strip(IF "text" \in DOMAIN w THEN w.text ELSE <<>>)

\* w["top"], w["x0"] of a word with text: a missing key raises KeyError.
WordRaises(w) == WordText(w) # <<>> /\ ~({"top", "x0"} \subseteq DOMAIN w)

WordsRaise(words) == \E i \in 1..Len(words) : WordRaises(words[i])

\* round(n / d) of Python 3: to the nearest integer, a tie to the even one.
PyRound(n, d) ==
    LET q == n \div d
        r == n % d
    IN  IF 2 * r < d THEN q
        ELSE IF 2 * r > d THEN q + 1
        ELSE IF q % 2 = 0 THEN q ELSE q + 1

\* The row key with the quotient truncated instead of rounded.
RowKeyTruncated(top, y_tolerance) ==
    (top \div (TOP_UNITS * y_tolerance)) * y_tolerance

\* round(float(w["top"]) / y_tolerance) * y_tolerance
RowKey(top, y_tolerance) == PyRound(top, TOP_UNITS * y_tolerance) * y_tolerance

\* rows[y]: the (x0, text) pairs of the words of row y, in the order of words.
RECURSIVE RowWords(_, _, _)
RowWords(words, y, y_tolerance) ==
    IF words = <<>> THEN <<>>
    ELSE LET w == Head(words)
         IN  (IF WordText(w) # <<>> /\ RowKey(w.top, y_tolerance) = y
              THEN <<<<w.x0, WordText(w)>>>> ELSE <<>>)
             \o RowWords(Tail(words), y, y_tolerance)

RowKeys(words, y_tolerance) ==
    {RowKey(words[i].top, y_tolerance) :
        i \in {j \in 1..Len(words) : WordText(words[j]) # <<>>}}

\* The keys in descending order.
RECURSIVE SortedKeysDescending(_)
SortedKeysDescending(keys) ==
    IF keys = {} THEN <<>>
    ELSE LET m == CHOOSE k \in keys : \A o \in keys : k >= o
         IN  <<m>> \o SortedKeysDescending(keys \ {m})

\* sorted(rows.keys())
RECURSIVE SortedKeys(_)
SortedKeys(keys) ==
    IF keys = {} THEN <<>>
    ELSE LET m == CHOOSE k \in keys : \A o \in keys : k <= o
         IN  <<m>> \o SortedKeys(keys \ {m})

\* sorted(rows[y], key=lambda x: x[0]), a stable sort
RECURSIVE InsertByX(_, _)
InsertByX(x, sorted) ==
    IF sorted = <<>> THEN <<x>>
    ELSE IF x[1] < Head(sorted)[1] THEN <<x>> \o sorted
         ELSE <<Head(sorted)>> \o InsertByX(x, Tail(sorted))

RECURSIVE SortByX(_)
SortByX(seq) ==
    IF seq = <<>> THEN <<>>
    ELSE InsertByX(seq[Len(seq)], SortByX(SubSeq(seq, 1, Len(seq) - 1)))

\* The inner loop with last_x never updated.
RECURSIVE RowCellsNoLastX(_, _, _)
RowCellsNoLastX(row_words, last_x, col_gap) ==
    IF row_words = <<>> THEN <<>>
    ELSE <<Head(row_words)[2]>> \o RowCellsNoLastX(Tail(row_words), last_x, col_gap)

\* The inner loop with the gap test x - last_x >= col_gap.
RECURSIVE RowCellsGapInclusive(_, _, _)
RowCellsGapInclusive(row_words, last_x, col_gap) ==
    IF row_words = <<>> THEN <<>>
    ELSE LET x == Head(row_words)[1]
             txt == Head(row_words)[2]
         IN  (IF last_x # None /\ (x - last_x[1]) >= col_gap THEN <<<<>>>> ELSE <<>>)
             \o <<txt>> \o RowCellsGapInclusive(Tail(row_words), Some(x), col_gap)

\* The inner loop: the cells of one row; last_x is None before the first word.
RECURSIVE RowCells(_, _, _)
RowCells(row_words, last_x, col_gap) ==
    IF row_words = <<>> THEN <<>>
    ELSE LET x == Head(row_words)[1]
             txt == Head(row_words)[2]
         IN  (IF last_x # None /\ (x - last_x[1]) > col_gap THEN <<<<>>>> ELSE <<>>)
             \o <<txt>> \o RowCells(Tail(row_words), Some(x), col_gap)

\* The table with one empty row for no words, where the code returns [].
BuildEmptyRowForNoWords(words, y_tolerance, col_gap) ==
    IF words = <<>> THEN << <<>> >>
    ELSE LET keys == SortedKeys(RowKeys(words, y_tolerance))
         IN  [i \in 1..Len(keys) |->
                 RowCells(SortByX(RowWords(words, keys[i], y_tolerance)), None, col_gap)]

build_table_from_words(words, y_tolerance, col_gap) ==
    IF words = <<>> THEN <<>>
    ELSE LET keys == SortedKeys(RowKeys(words, y_tolerance))
         IN  [i \in 1..Len(keys) |->
                 RowCells(SortByX(RowWords(words, keys[i], y_tolerance)), None, col_gap)]

(***************************************************************************)
(* extract_tables.  What a library call gives is [exc, val]: the exception *)
(* it raises (None when it returns) and the value it returns.  A table of  *)
(* val is Some(rows), or None for an object whose conversion raises        *)
(* (t.df fails, or sanitize_table iterates over None).                     *)
(***************************************************************************)
Returns(val) == [exc |-> None, val |-> val]
Raises(exc) == [exc |-> Some(exc), val |-> <<>>]

TableItem(section, subsection, description, rows) ==
    [type |-> "table", section |-> SectionOrUnknown(section),
     sub_section |-> subsection, description |-> description,
     table_data |-> Some(rows)]

\* "for t in tables: rows = sanitize_table(...); if rows: results.append(...)"
\* from table k on.  The items appended before an exception stay in results.
RECURSIVE ConvertTables(_, _, _, _, _, _, _)
ConvertTables(tables, k, strategy, res, org, section, subsection) ==
    IF k > Len(tables) THEN [results |-> res, origin |-> org, exc |-> None]
    ELSE IF tables[k] = None
         THEN [results |-> res, origin |-> org, exc |-> Some("TypeError")]
         ELSE LET rows == sanitize_table(tables[k][1])
              IN  IF rows # <<>>
                  THEN ConvertTables(tables, k + 1, strategy,
                           Append(res, TableItem(section, subsection, None, rows)),
                           Append(org, [strategy |-> strategy, index |-> k]),
                           section, subsection)
                  ELSE ConvertTables(tables, k + 1, strategy, res, org,
                                     section, subsection)

\* The body of the first try: [results, origin, calls, exc].
CamelotTry(page, res, org, section, subsection) ==
    IF page.lattice.exc # None
    THEN [results |-> res, origin |-> org, calls |-> <<"lattice">>,
          exc |-> page.lattice.exc]
    ELSE IF Len(page.lattice.val) = 0 /\ page.stream.exc # None
    THEN [results |-> res, origin |-> org, calls |-> <<"lattice", "stream">>,
          exc |-> page.stream.exc]
    ELSE LET retry == Len(page.lattice.val) = 0
             tables == IF retry THEN page.stream.val ELSE page.lattice.val
             conv == ConvertTables(tables, 1, "camelot", res, org, section, subsection)
         IN  [results |-> conv.results, origin |-> conv.origin,
              calls |-> IF retry THEN <<"lattice", "stream">> ELSE <<"lattice">>,
              exc |-> conv.exc]

\* The body of the second try.
PlumberTry(page, res, org, section, subsection) ==
    IF page.ptables.exc # None
    THEN [results |-> res, origin |-> org, calls |-> <<"extract_tables">>,
          exc |-> page.ptables.exc]
    ELSE LET conv == ConvertTables(page.ptables.val, 1, "pdfplumber", res, org,
                                   section, subsection)
         IN  [results |-> conv.results, origin |-> conv.origin,
              calls |-> <<"extract_tables">>, exc |-> conv.exc]

\* sanitize_table(table) on the rows of str that build_table_from_words returned
StrCells(rows) ==
    [r \in 1..Len(rows) |-> [c \in 1..Len(rows[r]) |-> StrCell(rows[r][c])]]

Reconstructed == "Reconstructed from word positions"

\* The body of the third try: [results, origin, calls, exc, table].
WordsTry(page, res, org, section, subsection) ==
    IF page.words.exc # None
    THEN [results |-> res, origin |-> org, calls |-> <<"extract_words">>,
          exc |-> page.words.exc, table |-> None]
    ELSE IF WordsRaise(page.words.val)
    THEN [results |-> res, origin |-> org,
          calls |-> <<"extract_words", "build_table_from_words">>,
          exc |-> Some("KeyError"), table |-> None]
    ELSE LET t == build_table_from_words(page.words.val, Y_TOLERANCE, COL_GAP)
         IN  [results |-> IF t # <<>>
                          THEN Append(res, TableItem(section, subsection,
                                   Some(Reconstructed), sanitize_table(StrCells(t))))
                          ELSE res,
              origin |-> IF t # <<>>
                         THEN Append(org, [strategy |-> "words", index |-> 1])
                         ELSE org,
              calls |-> <<"extract_words", "build_table_from_words">>,
              exc |-> None, table |-> Some(t)]

(***************************************************************************)
(* extract_charts                                                          *)
(***************************************************************************)
ChartItem(section, subsection, description) ==
    [type |-> "chart", section |-> SectionOrUnknown(section),
     sub_section |-> subsection, description |-> Some(description),
     table_data |-> None]

ChartsOnlyForImages(imgs, section, subsection) ==
    [i \in 1..imgs |-> ChartItem(section, subsection, "Chart image detected")]

\* imgs is modelled by its length.
extract_charts(imgs, section, subsection) ==
    IF imgs = 0
    THEN <<ChartItem(section, subsection, "Chart (vector or non-extractable)")>>
    ELSE [i \in 1..imgs |-> ChartItem(section, subsection, "Chart image detected")]

(***************************************************************************)
(* parse_pdf as a state machine.  Init is the state before the first pass  *)
(* of the loop over the pages.                                             *)
(***************************************************************************)
Init ==
    /\ doc = <<>>
    /\ pc = "next_page"
    /\ page_num = 0
    /\ pages_output = <<>>
    /\ page_items = <<>>
    /\ last_section = None
    /\ last_subsection = None
    /\ enriched = <<>>
    /\ idx = 1
    /\ paragraphs = <<>>
    /\ results = <<>>
    /\ table = None
    /\ charts = <<>>
    /\ raised = None
    /\ calls = <<>>
    /\ failed = {}
    /\ origin = <<>>
    /\ section_seen = FALSE
    /\ span_labels = {}

text_locals == <<enriched, idx, paragraphs>>
table_locals == <<results, table, calls, failed, origin>>
labels == <<last_section, last_subsection, section_seen, span_labels>>
output == <<pages_output, page_items>>

RECURSIVE BlocksRead(_)
BlocksRead(pages) ==
    IF pages = <<>> THEN 0 ELSE Len(Head(pages).blocks) + BlocksRead(Tail(pages))

\* for page_num, page in enumerate(doc, start=1): the next page of the file.
NextPage(pages, maxPages, maxBlocks) ==
    /\ pc = "next_page"
    /\ Len(doc) < maxPages
    /\ \E p \in pages :
          /\ BlocksRead(doc) + Len(p.blocks) <= maxBlocks
          /\ doc' = Append(doc, p)
    /\ page_num' = page_num + 1
    /\ page_items' = <<>>
    /\ pc' = "enrich"
    /\ UNCHANGED <<pages_output, text_locals, table_locals, charts, raised, labels>>

\* The loop is over: return {"pages": pages_output}.
EndOfDoc ==
    /\ pc = "next_page"
    /\ Len(doc) >= 1
    /\ pc' = "done"
    /\ UNCHANGED <<doc, page_num, output, text_locals, table_locals, charts,
                   raised, labels>>

\* extract_text_and_headings, the first loop.
EnrichBlocks ==
    /\ pc = "enrich"
    /\ LET blocks == doc[page_num].blocks
       IN  IF BlocksRaise(blocks)
           THEN /\ pc' = "raised"
                /\ raised' = Some("KeyError")
                /\ UNCHANGED enriched
           ELSE /\ pc' = "sort"
                /\ enriched' = Enrich(blocks)
                /\ UNCHANGED raised
    /\ UNCHANGED <<doc, page_num, output, idx, paragraphs, table_locals, charts, labels>>

\* enriched.sort(...) and paragraphs = []
SortBlocks ==
    /\ pc = "sort"
    /\ IF SortRaises(enriched)
       THEN /\ pc' = "raised"
            /\ raised' = Some("TypeError")
            /\ UNCHANGED <<enriched, idx, paragraphs>>
       ELSE /\ pc' = "classify"
            /\ enriched' = SortByPosition(enriched)
            /\ idx' = 1
            /\ paragraphs' = <<>>
            /\ UNCHANGED raised
    /\ UNCHANGED <<doc, page_num, output, table_locals, charts, labels>>

\* One pass of the second loop on a section heading.
ClassifySection ==
    /\ pc = "classify"
    /\ idx <= Len(enriched)
    /\ LET b == enriched[idx]
       IN  /\ IsSectionHeading(b.largest_font, b.is_bold)
           /\ last_section' = SectionHeadingState(b.text, last_subsection)[1]
           /\ last_subsection' = SectionHeadingState(b.text, last_subsection)[2]
    /\ idx' = idx + 1
    /\ section_seen' = TRUE
    /\ span_labels' = {}
    /\ UNCHANGED <<doc, pc, page_num, output, enriched, paragraphs, table_locals,
                   charts, raised>>

\* One pass of the second loop on a sub-section heading.
ClassifySubsection ==
    /\ pc = "classify"
    /\ idx <= Len(enriched)
    /\ LET b == enriched[idx]
       IN  /\ ~IsSectionHeading(b.largest_font, b.is_bold)
           /\ IsSubsectionHeading(b.largest_font, b.is_bold, b.text)
           /\ last_subsection' = Some(b.text)
    /\ idx' = idx + 1
    /\ span_labels' = {}
    /\ UNCHANGED <<doc, pc, page_num, output, enriched, paragraphs, table_locals,
                   charts, raised, last_section, section_seen>>

\* One pass of the second loop on a normal paragraph.
ClassifyParagraph ==
    /\ pc = "classify"
    /\ idx <= Len(enriched)
    /\ LET b == enriched[idx]
           item == ParagraphItem(last_section, last_subsection, b.text)
       IN  /\ ~IsSectionHeading(b.largest_font, b.is_bold)
           /\ ~IsSubsectionHeading(b.largest_font, b.is_bold, b.text)
           /\ paragraphs' = Append(paragraphs, item)
           /\ span_labels' = span_labels \cup {<<item.section, item.sub_section>>}
    /\ idx' = idx + 1
    /\ UNCHANGED <<doc, pc, page_num, output, enriched, table_locals, charts, raised,
                   last_section, last_subsection, section_seen>>

\* return paragraphs, last_section, last_subsection; page_items.extend(paragraphs);
\* extract_tables is entered: results = [].
ReturnText ==
    /\ pc = "classify"
    /\ idx > Len(enriched)
    /\ page_items' = page_items \o paragraphs
    /\ results' = <<>>
    /\ pc' = "camelot"
    /\ UNCHANGED <<doc, page_num, pages_output, text_locals, table, calls, failed,
                   origin, charts, raised, labels>>

\* Where extract_tables goes after a try: out of parse_pdf when the exception
\* is not caught, to its return when the try returned, else to the next try.
AfterTry(t, next) ==
    IF t.exc # None
    THEN (IF Catches(t.exc[1]) THEN next ELSE "raised")
    ELSE IF t.results # <<>> THEN "tables_return" ELSE next

TryStep(t, strategy, next) ==
    /\ results' = t.results
    /\ origin' = t.origin
    /\ calls' = calls \o t.calls
    /\ failed' = IF t.exc # None THEN failed \cup {strategy} ELSE failed
    /\ pc' = AfterTry(t, next)
    /\ raised' = IF t.exc # None /\ ~Catches(t.exc[1]) THEN t.exc ELSE raised

\* The first try of extract_tables: camelot, lattice then stream.
Camelot ==
    /\ pc = "camelot"
    /\ TryStep(CamelotTry(doc[page_num], results, origin, last_section, last_subsection),
               "camelot", "plumber")
    /\ UNCHANGED <<doc, page_num, output, text_locals, table, charts, labels>>

\* The second try: pdfplumber's extract_tables.
Plumber ==
    /\ pc = "plumber"
    /\ TryStep(PlumberTry(doc[page_num], results, origin, last_section, last_subsection),
               "pdfplumber", "words")
    /\ UNCHANGED <<doc, page_num, output, text_locals, table, charts, labels>>

\* The third try: the words of the page and build_table_from_words.
WordsFallback ==
    /\ pc = "words"
    /\ LET t == WordsTry(doc[page_num], results, origin, last_section, last_subsection)
       IN  /\ TryStep(t, "words", "tables_return")
           /\ table' = t.table
    /\ UNCHANGED <<doc, page_num, output, text_locals, charts, labels>>

\* return results; page_items.extend(tables)
ReturnTables ==
    /\ pc = "tables_return"
    /\ page_items' = page_items \o results
    /\ pc' = "charts"
    /\ UNCHANGED <<doc, page_num, pages_output, text_locals, table_locals, charts,
                   raised, labels>>

\* The charts labelled with the state parse_pdf had before this page: that of
\* the last item of the page before, None on the first page.
ChartsLabelledAtPageStart ==
    /\ pc = "charts"
    /\ LET before == IF pages_output = <<>> THEN <<None, None>>
                     ELSE LET c == pages_output[Len(pages_output)].content
                          IN  <<c[Len(c)].section, c[Len(c)].sub_section>>
       IN  charts' = extract_charts(doc[page_num].images, before[1], before[2])
    /\ page_items' = page_items \o charts'
    /\ pc' = "append"
    /\ UNCHANGED <<doc, page_num, pages_output, text_locals, table_locals, raised,
                   labels>>

\* charts = extract_charts(...); page_items.extend(charts)
Charts ==
    /\ pc = "charts"
    /\ charts' = extract_charts(doc[page_num].images, last_section, last_subsection)
    /\ page_items' = page_items \o charts'
    /\ pc' = "append"
    /\ UNCHANGED <<doc, page_num, pages_output, text_locals, table_locals, raised,
                   labels>>

\* The page appended with the number enumerate gives without start=1.
AppendPageZeroBased ==
    /\ pc = "append"
    /\ pages_output' = Append(pages_output,
                              [page_number |-> page_num - 1, content |-> page_items])
    /\ pc' = "next_page"
    /\ enriched' = <<>>
    /\ idx' = 1
    /\ paragraphs' = <<>>
    /\ results' = <<>>
    /\ table' = None
    /\ calls' = <<>>
    /\ failed' = {}
    /\ origin' = <<>>
    /\ charts' = <<>>
    /\ UNCHANGED <<doc, page_num, page_items, raised, labels>>

\* pages_output.append(...).  The frames of the three calls are gone.
AppendPage ==
    /\ pc = "append"
    /\ pages_output' = Append(pages_output,
                              [page_number |-> page_num, content |-> page_items])
    /\ pc' = "next_page"
    /\ enriched' = <<>>
    /\ idx' = 1
    /\ paragraphs' = <<>>
    /\ results' = <<>>
    /\ table' = None
    /\ calls' = <<>>
    /\ failed' = {}
    /\ origin' = <<>>
    /\ charts' = <<>>
    /\ UNCHANGED <<doc, page_num, page_items, raised, labels>>

(***************************************************************************)
(* The documents.                                                          *)
(***************************************************************************)
Intro == <<"I", "n", "t", "r", "o">>
Hello == <<"H", "e", "l", "l", "o", " ", "w", "o", "r", "l", "d", ".">>
Scope == <<"S", "c", "o", "p", "e">>
Blank == <<" ", " ">>

Span(text, size, flags) == [text |-> text, size |-> size, flags |-> flags]

Block(spans, x, y) ==
    [lines |-> <<[spans |-> spans]>>, bbox |-> Some(<<x, y, x + 200, y + 20>>)]

BIntro == Block(<<Span(Intro, 180, 0)>>, 0, 10)
BScope == Block(<<Span(Scope, 110, 2)>>, 0, 40)
BHello == Block(<<Span(Hello, 110, 0)>>, 0, 70)
BNoBBox == [lines |-> <<[spans |-> <<Span(Hello, 110, 0)>>]>>]
BNoSize == Block(<<[text |-> Hello, flags |-> 0]>>, 0, 70)

Seqs(S, n) == UNION {[1..k -> S] : k \in 0..n}

\* The words pdfplumber finds in the text of the blocks: words of one block
\* share its top and are WORD_PITCH apart.
WORD_PITCH == 30

BlockWords(b) ==
    IF BlocksRaise(<<b>>) \/ "bbox" \notin DOMAIN b THEN <<>>
    ELSE LET ws == Split(BlockText(b))
         IN  [k \in 1..Len(ws) |->
                 [text |-> ws[k], x0 |-> b.bbox[1][1] + (k - 1) * WORD_PITCH,
                  top |-> TOP_UNITS * b.bbox[1][2]]]

RECURSIVE PageWords(_)
PageWords(blocks) ==
    IF blocks = <<>> THEN <<>> ELSE BlockWords(Head(blocks)) \o PageWords(Tail(blocks))

Page(blocks, images, lattice, stream, ptables, words) ==
    [blocks |-> blocks, images |-> images, lattice |-> lattice, stream |-> stream,
     ptables |-> ptables, words |-> words]

Grid == << <<StrCell(<<" ", "a", " ">>), NoneCell>>, <<IntCell(70), StrCell(<<"b">>)>> >>

\* A page with text only, a page with a ruled table and an image, a page
\* where camelot fails and pdfplumber finds the table.
TextPage(blocks) ==
    Page(blocks, 0, Returns(<<>>), Returns(<<>>), Returns(<<>>),
         Returns(PageWords(blocks)))

LatticePage(blocks) ==
    Page(blocks, 1, Returns(<<Some(Grid)>>), Returns(<<>>), Returns(<<>>),
         Returns(PageWords(blocks)))

PlumberPage(blocks) ==
    Page(blocks, 0, Raises("IOError"), Returns(<<>>), Returns(<<Some(Grid)>>),
         Returns(PageWords(blocks)))

DocBlocks == {BIntro, BScope, BHello, BNoBBox, BNoSize}

DocPages ==
    UNION {{TextPage(b), LatticePage(b), PlumberPage(b)} : b \in Seqs(DocBlocks, MaxBlocks)}

Steps ==
    \/ EndOfDoc
    \/ EnrichBlocks
    \/ SortBlocks
    \/ ClassifySection
    \/ ClassifySubsection
    \/ ClassifyParagraph
    \/ ReturnText
    \/ Camelot
    \/ Plumber
    \/ WordsFallback
    \/ ReturnTables
    \/ Charts
    \/ AppendPage

\* Documents of up to MaxPages pages and MaxBlocks blocks.
Next ==
    \/ NextPage(DocPages, MaxPages, MaxBlocks)
    \/ Steps

Spec == Init /\ [][Next]_vars

(***************************************************************************)
(* Pages that exercise the classifier: one page of up to MaxTextBlocks     *)
(* blocks, around every threshold of the two heading rules.                *)
(***************************************************************************)
Five == <<"a", " ", "b", " ", "c", " ", "d", " ", "e">>

TextBlocks ==
    {Block(<<Span(Intro, 160, 0)>>, 0, 10),
     Block(<<Span(Scope, 140, 2)>>, 0, 20),
     Block(<<Span(<<"A">>, 140, 0)>>, 0, 30),
     Block(<<Span(<<"B">>, 159, 4)>>, 50, 30),
     Block(<<Span(<<"C">>, 130, 0)>>, 0, 40),
     Block(<<Span(<<"D">>, 115, 2)>>, 0, 50),
     Block(<<Span(<<"E">>, 129, 0)>>, 0, 60),
     Block(<<Span(<<"F", " ", "f">>, 110, 6)>>, 0, 5),
     Block(<<Span(Five, 110, 2)>>, 0, 80),
     Block(<<Span(<<"G", " ">>, 110, 0), Span(<<"g">>, 170, 0)>>, 0, 90),
     Block(<<Span(Blank, 180, 2)>>, 0, 15),
     [bbox |-> Some(<<0, 0, 10, 10>>)],
     BScope, BHello, BNoBBox, BNoSize}

TextPages == {TextPage(b) : b \in Seqs(TextBlocks, MaxTextBlocks)}

NextText ==
    \/ NextPage(TextPages, 1, MaxTextBlocks)
    \/ Steps

SpecText == Init /\ [][NextText]_vars

(***************************************************************************)
(* Pages that exercise extract_tables: every outcome of the two structured *)
(* extractors with up to MaxTables tables each, and of the word source.    *)
(***************************************************************************)
Word(text, x0, top) == [text |-> text, x0 |-> x0, top |-> top]

TablePool == {Some(Grid), Some(<<>>), None}

LibResults == {Raises("IOError")} \cup {Returns(t) : t \in Seqs(TablePool, MaxTables)}

\* The stream call is made only when the lattice call returned no table.
CamelotResults ==
    {<<l, Returns(<<>>)>> : l \in LibResults \ {Returns(<<>>)}}
    \cup {<<Returns(<<>>), st>> : st \in LibResults}

WordResults ==
    {Raises("IOError"), Returns(<<>>),
     Returns(<<Word(<<"a", " ">>, 0, 20), Word(<<"b">>, 50, 20)>>),
     Returns(<<[text |-> <<"a">>, x0 |-> 0]>>)}

Headed == <<BIntro, BScope, BHello>>

TablePages ==
    {Page(b, 0, c[1], c[2], pt, w) :
        b \in {<<>>, Headed}, c \in CamelotResults, pt \in LibResults, w \in WordResults}

NextTables ==
    \/ NextPage(TablePages, 1, Len(Headed))
    \/ Steps

SpecTables == Init /\ [][NextTables]_vars

(***************************************************************************)
(* Pages that exercise build_table_from_words: up to MaxWords words.       *)
(***************************************************************************)
WordPool ==
    {Word(<<"a">>, 0, 20), Word(<<"b">>, 10, 20), Word(<<"c">>, 50, 20),
     Word(<<"d">>, 30, 20), Word(<<"e">>, 0, 22), Word(<<"f">>, 10, 27),
     Word(<<" ">>, 5, 20), Word(<<" ", "g", " ">>, 80, 21),
     [text |-> <<"h">>, x0 |-> 0]}

WordPages ==
    {Page(Headed, 0, Returns(<<>>), Returns(<<>>), Returns(<<>>), Returns(w)) :
        w \in Seqs(WordPool, MaxWords)}

NextWords ==
    \/ NextPage(WordPages, 1, Len(Headed))
    \/ Steps

SpecWords == Init /\ [][NextWords]_vars

(***************************************************************************)
(* Pages that exercise extract_charts: one page with up to MaxImgs images. *)
(***************************************************************************)
ChartPages ==
    {Page(b, n, Returns(<<>>), Returns(<<>>), Returns(<<>>), Returns(PageWords(b))) :
        b \in Seqs({BIntro, BScope, BHello}, Len(Headed)), n \in 0..MaxImgs}

NextCharts ==
    \/ NextPage(ChartPages, 1, Len(Headed))
    \/ Steps

SpecCharts == Init /\ [][NextCharts]_vars

(***************************************************************************)
(* Pages that exercise the labels of tables and charts: a paragraph at the *)
(* top of the page, headings below it, and a heading at the bottom.        *)
(***************************************************************************)
End == <<"E", "n", "d">>

BLead == Block(<<Span(Hello, 110, 0)>>, 0, 5)
BClose == Block(<<Span(End, 180, 0)>>, 0, 90)

LabelBlocks == {BLead, BIntro, BScope, BClose}

LabelPages ==
    UNION {{TextPage(b), LatticePage(b)} : b \in Seqs(LabelBlocks, MaxBlocks)}

NextLabels ==
    \/ NextPage(LabelPages, MaxPages, MaxBlocks)
    \/ Steps

SpecLabels == Init /\ [][NextLabels]_vars

(***************************************************************************)
(* The claims.                                                             *)
(***************************************************************************)
AtBlock == pc = "classify" /\ idx <= Len(enriched)

\* The items of the result so far, of the page in hand and of the calls in hand.
RECURSIVE ItemsOfPages(_)
ItemsOfPages(pages) ==
    IF pages = <<>> THEN {}
    ELSE {Head(pages).content[i] : i \in 1..Len(Head(pages).content)}
         \cup ItemsOfPages(Tail(pages))

Range(seq) == {seq[i] : i \in 1..Len(seq)}

AllItems ==
    ItemsOfPages(pages_output) \cup Range(page_items) \cup Range(paragraphs)
    \cup Range(results) \cup Range(charts)

\* C1: a block with largest_font >= 16, or with largest_font >= 14 and bold, is
\* not emitted as a paragraph: the pass of the loop over it leaves paragraphs
\* as it was, sets last_section to the text of the block and last_subsection
\* to None, whatever they were.  (SpecText)
C1_SectionHeadingConsumed ==
    [][(AtBlock /\ (\/ enriched[idx].largest_font >= 160
                    \/ (enriched[idx].largest_font >= 140 /\ enriched[idx].is_bold)))
        => /\ paragraphs' = paragraphs
           /\ last_section' = Some(enriched[idx].text)
           /\ last_subsection' = None
           /\ idx' = idx + 1]_vars

\* C1 witness: a section heading was just processed right after a sub-section
\* heading, so the sub-section was set before and is None now.
C1_Witness ==
    /\ pc = "classify"
    /\ idx = 3
    /\ ~IsSectionHeading(enriched[1].largest_font, enriched[1].is_bold)
    /\ IsSubsectionHeading(enriched[1].largest_font, enriched[1].is_bold, enriched[1].text)
    /\ enriched[2].largest_font = 140 /\ enriched[2].is_bold
    /\ last_section = Some(enriched[2].text)
    /\ last_subsection = None
    /\ paragraphs = <<>>

\* C2: a section heading resets last_subsection to None; a step that is not a
\* pass of the loop over a heading block (of either rank) leaves last_section
\* and last_subsection unchanged, the steps from one page to the next included;
\* and the paragraphs emitted since the last heading all carry one and the same
\* pair of section and sub_section.  (Spec)
C2_LabelsPersistBetweenHeadings ==
    /\ [](Cardinality(span_labels) <= 1)
    /\ [][/\ (AtBlock /\ IsSectionHeading(enriched[idx].largest_font, enriched[idx].is_bold))
             => last_subsection' = None
          /\ ~(AtBlock /\ (\/ IsSectionHeading(enriched[idx].largest_font,
                                               enriched[idx].is_bold)
                           \/ IsSubsectionHeading(enriched[idx].largest_font,
                                                  enriched[idx].is_bold,
                                                  enriched[idx].text)))
             => /\ last_section' = last_section
                /\ last_subsection' = last_subsection]_vars

\* C2 witness: the second page starts with a paragraph that carries the
\* sub-section set on the first page, as the paragraph of the first page does.
C2_Witness ==
    /\ page_num = 2
    /\ pc = "classify"
    /\ idx = 2
    /\ Len(paragraphs) = 1
    /\ paragraphs[1].sub_section = Some(Scope)
    /\ pages_output[1].content[1].type = "paragraph"
    /\ pages_output[1].content[1].sub_section = Some(Scope)
    /\ span_labels = {<<paragraphs[1].section, Some(Scope)>>}

\* C3: every content item has a section that is not None, and as long as no
\* section heading block was classified that section is "Unknown", also when a
\* sub-section heading was; the pages already in the output never change.  (Spec)
C3_SectionNeverAbsent ==
    /\ [](\A item \in AllItems :
             /\ item.section # None
             /\ ~section_seen => item.section = Some(Unknown))
    /\ [][SubSeq(pages_output', 1, Len(pages_output)) = pages_output]_vars

\* C3 witness: a page is complete with a paragraph, a table and a chart, all
\* under "Unknown" and under a sub-section, no section heading seen yet.
C3_Witness ==
    /\ pc = "append"
    /\ ~section_seen
    /\ \A t \in {"paragraph", "table", "chart"} :
          \E item \in Range(page_items) :
              /\ item.type = t
              /\ item.section = Some(Unknown)
              /\ item.sub_section = Some(Scope)

Strategies(org) == {org[i].strategy : i \in 1..Len(org)}

Called(name) == \E i \in 1..Len(calls) : calls[i] = name

\* C4: when extract_tables returns, if the camelot strategy produced a table
\* then neither pdfplumber's extract_tables nor build_table_from_words was
\* invoked, and build_table_from_words was invoked only if neither structured
\* strategy produced a table.  (SpecTables)
C4_StopsAtFirstProducingStrategy ==
    pc = "tables_return" =>
        /\ "camelot" \in Strategies(origin)
             => ~Called("extract_tables") /\ ~Called("build_table_from_words")
        /\ Called("build_table_from_words")
             => Strategies(origin) \cap {"camelot", "pdfplumber"} = {}

\* C5: when extract_tables returns, no item of results comes from a strategy
\* that raised, and the items come from one strategy.  (SpecTables)
C5_FailedStrategyContributesNothing ==
    pc = "tables_return" =>
        /\ Strategies(origin) \cap failed = {}
        /\ Cardinality(Strategies(origin)) <= 1

\* C6: no exception leaves extract_tables, whatever the three strategies do;
\* what it returns is a list of table items; and after a strategy raised, the
\* next strategy of the chain was invoked.  (SpecTables)
C6_ExtractTablesNeverRaises ==
    /\ pc = "raised" => calls = <<>>
    /\ pc = "tables_return" =>
          /\ \A item \in Range(results) : item.type = "table"
          /\ "camelot" \in failed => Called("extract_tables")
          /\ "pdfplumber" \in failed => Called("extract_words")

\* C6 witness: extract_tables returns the empty list after all three
\* strategies raised.
C6_Witness ==
    /\ pc = "tables_return"
    /\ failed = {"camelot", "pdfplumber", "words"}
    /\ results = <<>>

\* The rows the item of results with this origin was made from.
SourceRows(page, org) ==
    CASE org.strategy = "camelot" ->
            (IF Len(page.lattice.val) = 0 THEN page.stream.val
             ELSE page.lattice.val)[org.index][1]
      [] org.strategy = "pdfplumber" -> page.ptables.val[org.index][1]
      [] org.strategy = "words" ->
            StrCells(build_table_from_words(page.words.val, Y_TOLERANCE, COL_GAP))

\* C7: in every table item, of whichever strategy, every cell of table_data is
\* a str without surrounding whitespace; the items of results have the shape of
\* their source rows, and a source cell that is None is the empty str.  (SpecTables)
C7_CellsSanitized ==
    /\ \A item \in {it \in AllItems : it.type = "table"} :
          \A r \in 1..Len(item.table_data[1]) :
              \A c \in 1..Len(item.table_data[1][r]) :
                  LET cell == item.table_data[1][r][c]
                  IN  /\ \A j \in 1..Len(cell) : cell[j] \in STRING
                      /\ cell = Strip(cell)
    /\ \A i \in 1..Len(results) :
          LET src == SourceRows(doc[page_num], origin[i])
              data == results[i].table_data[1]
          IN  /\ Len(data) = Len(src)
              /\ \A r \in 1..Len(src) :
                    /\ Len(data[r]) = Len(src[r])
                    /\ \A c \in 1..Len(src[r]) :
                          src[r][c] = NoneCell => data[r][c] = <<>>

\* C7 witness: extract_tables returns one table of pdfplumber and one rebuilt
\* from the words; the None cell is "", " a " is "a", the int 70 is "70", and
\* the word "a " is "a".
C7_Witness ==
    /\ pc = "tables_return"
    /\ Len(results) = 2
    /\ origin[1].strategy = "pdfplumber"
    /\ results[1].table_data[1] = << << <<"a">>, <<>> >>, << <<"7", "0">>, <<"b">> >> >>
    /\ origin[2].strategy = "words"
    /\ results[2].table_data[1] = << << <<"a">>, <<>>, <<"b">> >> >>

\* The document of the end-to-end scenario was parsed: one page, the blocks
\* "Intro" (size 18) and "Hello world." (size 11), no table from the structured
\* extractors, no image.
ScenarioParsed ==
    /\ pc = "done"
    /\ Len(doc) = 1
    /\ doc[1].blocks = <<BIntro, BHello>>
    /\ doc[1].lattice = Returns(<<>>)
    /\ doc[1].stream = Returns(<<>>)
    /\ doc[1].ptables = Returns(<<>>)
    /\ doc[1].images = 0

ScenarioParagraph ==
    [type |-> "paragraph", section |-> Some(Intro), sub_section |-> None, text |-> Hello]

ScenarioChart ==
    [type |-> "chart", section |-> Some(Intro), sub_section |-> None,
     description |-> Some("Chart (vector or non-extractable)"), table_data |-> None]

\* The word source returned the words of the page, one of them with text.
WordsFound(page) ==
    /\ page.words.exc = None
    /\ ~WordsRaise(page.words.val)
    /\ \E i \in 1..Len(page.words.val) : WordText(page.words.val[i]) # <<>>

\* C8 as stated: the scenario gives one page, numbered 1, whose content is the
\* paragraph and the chart placeholder and nothing else.  (Spec)
C8_Original ==
    ScenarioParsed =>
        pages_output = <<[page_number |-> 1,
                          content |-> <<ScenarioParagraph, ScenarioChart>>]>>

\* C8 amended: when the word source returns the words of the page, the content
\* is three items: the paragraph, one table item "Reconstructed from word
\* positions" under section "Intro" and no sub-section, whose cells hold the
\* words of the page, and the chart placeholder.  (Spec)
C8_ScenarioWithReconstructedTable ==
    (ScenarioParsed /\ WordsFound(doc[1])) =>
        /\ Len(pages_output) = 1
        /\ pages_output[1].page_number = 1
        /\ LET content == pages_output[1].content
           IN  /\ Len(content) = 3
               /\ content[1] = ScenarioParagraph
               /\ content[2].type = "table"
               /\ content[2].section = Some(Intro)
               /\ content[2].sub_section = None
               /\ content[2].description = Some(Reconstructed)
               /\ \A i \in 1..Len(doc[1].words.val) :
                     \E r \in 1..Len(content[2].table_data[1]) :
                         WordText(doc[1].words.val[i]) \in Range(content[2].table_data[1][r])
               /\ content[3] = ScenarioChart

\* C8 witness: the scenario was parsed, with the words "Intro", "Hello" and
\* "world." found, and the page has its three items.
C8_Witness ==
    /\ ScenarioParsed
    /\ WordsFound(doc[1])
    /\ Len(doc[1].words.val) = 3
    /\ Len(pages_output[1].content) = 3

\* build_table_from_words returned for three words with text, of one quantized
\* row, whose x0 are 0, 10 and 50.
GapCase ==
    /\ table # None
    /\ LET words == doc[page_num].words.val
       IN  /\ Len(words) = 3
           /\ \A i \in 1..3 : WordText(words[i]) # <<>>
           /\ {words[i].x0 : i \in 1..3} = {0, 10, 50}
           /\ \A i \in 1..3 : RowKey(words[i].top, 3) = RowKey(words[1].top, 3)

WordAt(x) ==
    LET words == doc[page_num].words.val
    IN  WordText(words[CHOOSE i \in 1..3 : words[i].x0 = x])

EmptyCells(row) == {c \in 1..Len(row) : row[c] = <<>>}

\* C9 as stated: the row has one inserted empty cell, right before the word at
\* x0 = 50, and 3 cells in all.  (SpecWords)
C9_Original ==
    GapCase =>
        /\ Len(table[1]) = 1
        /\ Cardinality(EmptyCells(table[1][1])) = 1
        /\ Len(table[1][1]) = 3

\* C9 amended: the row has one inserted empty cell, right before the word at
\* x0 = 50, and 4 cells in all: the three words and the empty cell.  (SpecWords)
C9_GapRowHasFourCells ==
    GapCase =>
        /\ Len(table[1]) = 1
        /\ table[1][1] = <<WordAt(0), WordAt(10), <<>>, WordAt(50)>>
        /\ Cardinality(EmptyCells(table[1][1])) = 1
        /\ Len(table[1][1]) = 4

\* C9 witness: the words came in the order 50, 0, 10 and the row was built.
C9_Witness ==
    /\ GapCase
    /\ doc[page_num].words.val[1].x0 = 50
    /\ doc[page_num].words.val[2].x0 = 0
    /\ table[1][1] = << <<"a">>, <<"b">>, <<>>, <<"c">> >>

\* C10: no exception leaves extract_text_and_headings or parse_pdf, whatever
\* the blocks of the page are.  (Spec)
C10_MalformedBlockNeverRaises == pc # "raised" /\ raised = None

\* C11: what extract_charts returned is never the empty list: for a page
\* without images it is one item "Chart (vector or non-extractable)", for a
\* page with n >= 1 images it is n items "Chart image detected"; every item is
\* a chart with table_data None.  (SpecCharts)
C11_ChartsNeverEmpty ==
    pc = "append" =>
        LET n == doc[page_num].images
        IN  /\ charts # <<>>
            /\ n = 0 =>
                  /\ Len(charts) = 1
                  /\ charts[1].description = Some("Chart (vector or non-extractable)")
            /\ n >= 1 =>
                  /\ Len(charts) = n
                  /\ \A i \in 1..n : charts[i].description = Some("Chart image detected")
            /\ \A i \in 1..Len(charts) :
                  charts[i].type = "chart" /\ charts[i].table_data = None

\* C11 witness: extract_charts returned three items for a page with three images.
C11_Witness ==
    /\ pc = "append"
    /\ doc[page_num].images = 3
    /\ Len(charts) = 3
    /\ charts[3].description = Some("Chart image detected")

TypeRank(item) ==
    CASE item.type = "paragraph" -> 1 [] item.type = "table" -> 2 [] item.type = "chart" -> 3

ItemsOfType(content, t) == {i \in 1..Len(content) : content[i].type = t}

\* The text of the blocks of a page that have any, as a set.
BlockTexts(blocks) ==
    {BlockText(blocks[i]) : i \in {j \in 1..Len(blocks) : ~BlocksRaise(<<blocks[j]>>)}}

\* C12: when parse_pdf returns for a document of N pages, pages_output has N
\* records numbered 1..N; record k is made from page k of the document (its
\* paragraphs are texts of blocks of page k, its charts are as many as the
\* images of page k, or one when there is none); and in every record the
\* paragraphs come before the tables, which come before the charts.  (Spec)
C12_PagesNumberedAndOrdered ==
    /\ pc = "done" =>
          /\ Len(pages_output) = Len(doc)
          /\ \A k \in 1..Len(doc) :
                LET content == pages_output[k].content
                IN  /\ pages_output[k].page_number = k
                    /\ \A i \in ItemsOfType(content, "paragraph") :
                          content[i].text \in BlockTexts(doc[k].blocks)
                    /\ Cardinality(ItemsOfType(content, "chart"))
                          = IF doc[k].images = 0 THEN 1 ELSE doc[k].images
    /\ \A k \in 1..Len(pages_output) :
          LET content == pages_output[k].content
          IN  \A i, j \in 1..Len(content) :
                  i < j => TypeRank(content[i]) <= TypeRank(content[j])

\* C12 witness: a document of two pages was parsed; the second page has a
\* paragraph, then a table, then a chart.
C12_Witness ==
    /\ pc = "done"
    /\ Len(doc) = 2
    /\ pages_output[2].page_number = 2
    /\ Len(pages_output[2].content) = 3
    /\ pages_output[2].content[1].type = "paragraph"
    /\ pages_output[2].content[2].type = "table"
    /\ pages_output[2].content[3].type = "chart"
    /\ doc[1].blocks # doc[2].blocks

\* The third try ran on this page with the word source returning no word.
NoWordsCase ==
    /\ pc = "tables_return"
    /\ Called("extract_words")
    /\ doc[page_num].words = Returns(<<>>)

\* C13: on an empty list of words build_table_from_words returns the empty
\* table and does not raise, and extract_tables adds no item for it.  (SpecTables)
C13_NoWordsNoTable ==
    NoWordsCase =>
        /\ Called("build_table_from_words")
        /\ table = Some(<<>>)
        /\ "words" \notin failed
        /\ "words" \notin Strategies(origin)
        /\ \A item \in Range(results) : item.description = None

\* C13 witness: nothing from the structured extractors, no word: the third
\* try ran and extract_tables returns the empty list.
C13_Witness ==
    /\ NoWordsCase
    /\ table = Some(<<>>)
    /\ failed = {}
    /\ results = <<>>

\* The two rules as the claims state them, on the block the loop is at.
SectionRule(b) == b.largest_font >= 160 \/ (b.largest_font >= 140 /\ b.is_bold)

SubsectionRule(b) ==
    \/ (130 <= b.largest_font /\ b.largest_font < 160)
    \/ (115 <= b.largest_font /\ b.largest_font < 130 /\ b.is_bold)
    \/ (Len(Split(b.text)) <= 4 /\ b.is_bold)

\* C14: a block that does not meet the section rule and meets the sub-section
\* rule is not emitted as a paragraph, sets last_subsection to its text and
\* leaves last_section unchanged; a block that meets both rules is treated as a
\* section heading only: last_section is its text and last_subsection None.
\* (SpecText)
C14_FirstMatchWins ==
    [][/\ (AtBlock /\ ~SectionRule(enriched[idx]) /\ SubsectionRule(enriched[idx]))
          => /\ paragraphs' = paragraphs
             /\ last_subsection' = Some(enriched[idx].text)
             /\ last_section' = last_section
             /\ idx' = idx + 1
       /\ (AtBlock /\ SectionRule(enriched[idx]) /\ SubsectionRule(enriched[idx]))
          => /\ paragraphs' = paragraphs
             /\ last_section' = Some(enriched[idx].text)
             /\ last_subsection' = None
             /\ idx' = idx + 1]_vars

\* C14 witness: after a section heading, a bold block of one word at size 11
\* was processed: it is the sub-section, the section is still the heading, and
\* no paragraph was emitted.
C14_Witness ==
    /\ pc = "classify"
    /\ idx = 3
    /\ SectionRule(enriched[1])
    /\ enriched[2].largest_font = 110
    /\ enriched[2].is_bold
    /\ Len(Split(enriched[2].text)) = 1
    /\ last_section = Some(enriched[1].text)
    /\ last_subsection = Some(enriched[2].text)
    /\ paragraphs = <<>>

\* build_table_from_words returned; Built is its table, WordsIn its argument.
BuilderReturned == table # None

Built == table[1]

WordsIn == doc[page_num].words.val

WithText == {i \in 1..Len(WordsIn) : WordText(WordsIn[i]) # <<>>}

\* The rows of the table that hold the text of word i.
RowsOf(i) == {r \in 1..Len(Built) : WordText(WordsIn[i]) \in Range(Built[r])}

\* The tops of words i and j differ by less than y_tolerance = 3 (tops are in halves).
CloseTops(i, j) ==
    /\ WordsIn[i].top - WordsIn[j].top < 6
    /\ WordsIn[j].top - WordsIn[i].top < 6

\* round(top / 3) * 3 with the tie to the even integer, top in halves.
QuantizedTop(i) ==
    LET q == WordsIn[i].top \div 6
        r == WordsIn[i].top % 6
    IN  3 * (IF r < 3 THEN q ELSE IF r > 3 THEN q + 1 ELSE IF q % 2 = 0 THEN q ELSE q + 1)

\* C15 as stated: two words whose tops differ by less than y_tolerance are in
\* the same row of the table.  (SpecWords)
C15_Original ==
    BuilderReturned =>
        \A i, j \in WithText : CloseTops(i, j) => RowsOf(i) = RowsOf(j)

\* C15 amended: two words whose tops differ by less than y_tolerance are in
\* the same row exactly when their tops quantize to the same key
\* round(top / y_tolerance) * y_tolerance; otherwise they are in two different
\* rows whose keys differ by y_tolerance.  (SpecWords)
C15_SameRowIffSameKey ==
    BuilderReturned =>
        \A i, j \in WithText :
            CloseTops(i, j) =>
                /\ RowsOf(i) # {}
                /\ QuantizedTop(i) = QuantizedTop(j) => RowsOf(i) = RowsOf(j)
                /\ QuantizedTop(i) # QuantizedTop(j) =>
                      /\ RowsOf(i) \cap RowsOf(j) = {}
                      /\ QuantizedTop(i) - QuantizedTop(j) \in {3, -3}

\* C15 witness: the words at tops 10 and 11 are in two rows, the word at top
\* 10.5 in the row of the word at top 11.
C15_Witness ==
    /\ BuilderReturned
    /\ Len(WordsIn) = 3
    /\ WordsIn[1].top = 20 /\ WordsIn[2].top = 22 /\ WordsIn[3].top = 21
    /\ WordsIn[1].x0 = 0
    /\ Built = << << <<"a">> >>, << <<"e">>, <<>>, <<"g">> >> >>

\* What the claims say of the table, stated on the words themselves.
KeysIn == {QuantizedTop(i) : i \in WithText}

WordsOfKey(k) == {i \in WithText : QuantizedTop(i) = k}

\* The row of key k, the keys counted from the smallest.
RowOfKey(k) == 1 + Cardinality({o \in KeysIn : o < k})

\* Word j is left of word i: a smaller x0, or the same x0 and earlier in words.
LeftOf(j, i) ==
    \/ WordsIn[j].x0 < WordsIn[i].x0
    \/ (WordsIn[j].x0 = WordsIn[i].x0 /\ j < i)

\* The place of word i among the words of its row, from the left.
PlaceOf(i) == 1 + Cardinality({j \in WordsOfKey(QuantizedTop(i)) : LeftOf(j, i)})

WordAtPlace(k, p) == CHOOSE i \in WordsOfKey(k) : PlaceOf(i) = p

\* Word i is not the first of its row and its x0 exceeds that of the word
\* before it by more than col_gap = 20.
GapBefore(i) ==
    /\ PlaceOf(i) > 1
    /\ WordsIn[i].x0 - WordsIn[WordAtPlace(QuantizedTop(i), PlaceOf(i) - 1)].x0 > 20

GapsOfKey(k) == {i \in WordsOfKey(k) : GapBefore(i)}

\* The cell of word i: its place plus the gaps up to it.
CellOf(i) ==
    PlaceOf(i)
    + Cardinality({j \in GapsOfKey(QuantizedTop(i)) : PlaceOf(j) <= PlaceOf(i)})

\* C16: every row has as many cells as it has words plus gaps; every word's
\* text is in the cell its place and the gaps up to it give; the cell before a
\* word after a gap is the one empty cell of that gap, and there is no other
\* empty cell (none before the first word, one per gap whatever its width).
\* (SpecWords)
C16_OneEmptyCellPerGap ==
    BuilderReturned =>
        /\ Len(Built) = Cardinality(KeysIn)
        /\ \A k \in KeysIn :
              LET row == Built[RowOfKey(k)]
              IN  /\ Len(row) = Cardinality(WordsOfKey(k)) + Cardinality(GapsOfKey(k))
                  /\ Cardinality(EmptyCells(row)) = Cardinality(GapsOfKey(k))
                  /\ \A i \in WordsOfKey(k) :
                        /\ row[CellOf(i)] = WordText(WordsIn[i])
                        /\ GapBefore(i) => row[CellOf(i) - 1] = <<>>

\* C16 witness: "d" at x0 = 30 follows "a" at 0 after a gap, and "c" at 50
\* follows "d" without one (50 - 30 is not more than 20).
C16_Witness ==
    /\ BuilderReturned
    /\ Len(WordsIn) = 3
    /\ WordsIn[1].x0 = 50 /\ WordsIn[2].x0 = 30 /\ WordsIn[3].x0 = 0
    /\ Built = << << <<"a">>, <<>>, <<"d">>, <<"c">> >> >>

WithoutEmptyCells(row) == SelectSeq(row, LAMBDA c : c # <<>>)

\* C18: the table has one row per row key, in ascending order of the keys; the
\* words of a row are, from the left, in ascending order of x0; and every
\* word with text is in the row of its key once, and in no other row.
\* (SpecWords)
C18_RowsAndWordsInOrder ==
    BuilderReturned =>
        /\ Len(Built) = Cardinality(KeysIn)
        /\ \A k \in KeysIn :
              WithoutEmptyCells(Built[RowOfKey(k)])
                  = [p \in 1..Cardinality(WordsOfKey(k)) |->
                        WordText(WordsIn[WordAtPlace(k, p)])]
        /\ \A k \in KeysIn :
              \A p, q \in 1..Cardinality(WordsOfKey(k)) :
                  p < q => WordsIn[WordAtPlace(k, p)].x0 <= WordsIn[WordAtPlace(k, q)].x0

\* C18 witness: three words given bottom row first and right to left come out
\* top row first and left to right.
C18_Witness ==
    /\ BuilderReturned
    /\ Len(WordsIn) = 3
    /\ WordsIn[1].top = 27 /\ WordsIn[2].top = 20 /\ WordsIn[3].top = 20
    /\ WordsIn[2].x0 = 10 /\ WordsIn[3].x0 = 0
    /\ Built = << << <<"a">>, <<"b">> >>, << <<"f">> >> >>

\* The blocks of the page that have text, and its section headings.
PageBlocks == Enrich(doc[page_num].blocks)

Headings ==
    {h \in Range(PageBlocks) : IsSectionHeading(h.largest_font, h.is_bold)}

SubHeadings ==
    {h \in Range(PageBlocks) :
        /\ ~IsSectionHeading(h.largest_font, h.is_bold)
        /\ IsSubsectionHeading(h.largest_font, h.is_bold, h.text)}

\* Block a is before block b in reading order: higher, or as high and more to
\* the left.
Above(a, b) == KeyLess(SortKey(a), SortKey(b))

\* C17: on the first page, a paragraph with section headings above it is
\* labelled by a heading that is not below it and that no heading above it
\* follows, wherever the page lists them; a paragraph with no heading above
\* or beside it is labelled "Unknown", and its sub_section, when it has one,
\* is the text of a sub-section heading that is not below it.  (SpecText)
C17_HeadingsLabelInReadingOrder ==
    [][(pc = "classify" /\ Len(paragraphs') = Len(paragraphs) + 1) =>
          LET b == enriched[idx]
              item == paragraphs'[Len(paragraphs')]
              above == {h \in Headings : Above(h, b)}
              notBelow == {h \in Headings : ~Above(b, h)}
          IN  /\ item.text = b.text
              /\ above # {} =>
                    \E h \in notBelow :
                        /\ \A h2 \in above : ~Above(h, h2)
                        /\ item.section = Some(h.text)
              /\ notBelow = {} => item.section = Some(Unknown)
              /\ item.sub_section # None =>
                    \E h \in SubHeadings :
                        ~Above(b, h) /\ item.sub_section = Some(h.text)]_vars

\* C17 witness: the page lists the paragraph (y = 70), then the heading below
\* it (y = 90), then the heading above it (y = 10); the paragraph has the
\* label of the heading above, and the heading below is the state returned.
C17_Witness ==
    /\ pc = "classify"
    /\ idx > Len(enriched)
    /\ Len(doc[1].blocks) = 3
    /\ doc[1].blocks[1] = BHello
    /\ SortKey(EnrichedBlock(doc[1].blocks[2])) = <<90, 0>>
    /\ SortKey(EnrichedBlock(doc[1].blocks[3])) = <<10, 0>>
    /\ paragraphs = <<ParagraphItem(Some(Intro), None, Hello)>>
    /\ last_section = Some(<<"G", " ", " ", "g">>)

\* The tables and charts of the page being parsed, once all are in page_items.
PageDone == pc = "append"

TablesAndCharts ==
    {page_items[i] : i \in {j \in 1..Len(page_items) :
                               page_items[j].type \in {"table", "chart"}}}

\* The labels parse_pdf carried into this page, as the page before shows them
\* in its last item (a chart).
CarriedIn ==
    IF page_num = 1 THEN <<Some(Unknown), None>>
    ELSE LET c == pages_output[page_num - 1].content
         IN  <<c[Len(c)].section, c[Len(c)].sub_section>>

\* The headings of the page that no heading of their kind follows.
LastOf(hs) == {h \in hs : \A h2 \in hs : ~Above(h, h2)}

\* C19: when the page is parsed, each of its table and chart items has the
\* labels left by the whole page: the section of the page's last section
\* heading, or the one carried in when the page has none; the sub_section of
\* the page's last sub-section heading when it follows every section heading,
\* null when a section heading follows every sub-section heading, and the one
\* carried in when the page has no heading at all.  (SpecLabels)
C19_TablesAndChartsLabelledAtPageEnd ==
    PageDone =>
        \A item \in TablesAndCharts :
            /\ Headings # {} => \E h \in LastOf(Headings) : item.section = Some(h.text)
            /\ Headings = {} => item.section = CarriedIn[1]
            /\ (\E s \in SubHeadings : \A h \in Headings : Above(h, s)) =>
                  \E s \in LastOf(SubHeadings) : item.sub_section = Some(s.text)
            /\ (Headings # {} /\ \A s \in SubHeadings : \E h \in Headings : Above(s, h)) =>
                  item.sub_section = None
            /\ (Headings = {} /\ SubHeadings = {}) => item.sub_section = CarriedIn[2]

\* C19 witness: the second page has a paragraph at the top, a sub-section
\* heading, and a section heading at the bottom; its paragraph keeps the
\* labels of the first page, its table and its chart have the heading at the
\* bottom and no sub_section.
C19_Witness ==
    /\ PageDone
    /\ page_num = 2
    /\ doc[2].blocks = <<BClose, BScope, BLead>>
    /\ Len(page_items) = 3
    /\ page_items[1] = ParagraphItem(None, None, Hello)
    /\ page_items[2].type = "table"
    /\ page_items[3].type = "chart"
    /\ \A i \in {2, 3} : /\ page_items[i].section = Some(End)
                         /\ page_items[i].sub_section = None

\* A strategy yields no table when it raised or added no item (spec 4.2: an
\* exception is "zero tables from this strategy").
YieldsNoTable(strategy) == strategy \in failed \/ strategy \notin Strategies(origin)

\* The word source returned words, each with its position, one at least with
\* text.
PageWordsFound ==
    /\ doc[page_num].words.exc = None
    /\ ~WordsRaise(doc[page_num].words.val)
    /\ \E i \in 1..Len(doc[page_num].words.val) :
          WordText(doc[page_num].words.val[i]) # <<>>

CellsOf(item) == UNION {Range(item.table_data[1][r]) : r \in 1..Len(item.table_data[1])}

\* C20: when extract_tables returns, if neither structured strategy yielded a
\* table and the word source returned a word with text, results is one table
\* item with the description "Reconstructed from word positions" whose cells
\* hold the text of every word; and every item that comes from a structured
\* strategy has a null description.  (SpecTables)
C20_ReconstructedTableWhenNothingStructured ==
    pc = "tables_return" =>
        /\ (YieldsNoTable("camelot") /\ YieldsNoTable("pdfplumber") /\ PageWordsFound) =>
              /\ Len(results) = 1
              /\ results[1].type = "table"
              /\ results[1].description = Some(Reconstructed)
              /\ \A i \in 1..Len(doc[page_num].words.val) :
                    LET txt == WordText(doc[page_num].words.val[i])
                    IN  txt # <<>> => txt \in CellsOf(results[1])
        /\ \A i \in 1..Len(results) :
              origin[i].strategy \in {"camelot", "pdfplumber"}
                  => results[i].description = None

\* The same, for the calls where no strategy raised after adding an item.
ReconstructedUnlessFailedStrategyKept ==
    Strategies(origin) \cap failed = {} => C20_ReconstructedTableWhenNothingStructured

====
